---- MODULE Spec2Model ----
(***************************************************************************)
(* The polyphonic envelope synthesizer of src/main.rs: the command channel *)
(* between the input thread and the audio thread, the oscillator bank, the *)
(* attack/release envelope of each oscillator and the per-sample mix of    *)
(* Synthesizer::next; the input handling thread of main (SpecInput); and   *)
(* the envelope-free variant of src/keyboard-clicking.rs (kc_Spec).        *)
(*                                                                         *)
(* Number representation.  Every amplitude (attack_phase, release_phase,   *)
(* the rates, the envelope multiplier) is an integer count of units of     *)
(* 1/sample_rate, so 1.0 is the integer sample_rate and                    *)
(*   release_rate = 1.0 / (sample_rate * 0.5 ) = 2   units,                *)
(*   attack_rate  = 1.0 / (sample_rate * 0.01) = 100 units,                *)
(* exactly (the arithmetic of the model is exact, not f32).  A phase is an *)
(* integer count of quarter turns (2*PI = 4), where the sine is exactly    *)
(* 0, 1, 0, -1.  An emitted sample is the exact fraction num/den.          *)
(***************************************************************************)
EXTENDS Integers, Sequences, FiniteSets, TLC

VARIABLES
    oscillators,   \* Synthesizer.oscillators: key -> Oscillator
    sample_rate,   \* Synthesizer.sample_rate
    queue,         \* the mpsc channel behind command_receiver (FIFO)
    pc,            \* the audio thread: "idle" between pulls, "drain" inside process_commands
    out,           \* the sample the last pull returned
    nsent,         \* history: number of commands the producer has sent
    pull,          \* history: what the running / last pull saw (see NextBegin, Mix)
    hist,          \* history: per key, the envelope multipliers of the last pulls
    clock,         \* number of completed pulls (counted by the specifications
                   \* that run a bounded number of pulls only)
    input          \* the input handling thread of main: its position and its locals

vars == <<oscillators, sample_rate, queue, pc, out, nsent, pull, hist, clock, input>>

----------------------------------------------------------------------------
(* Bounds of the model *)

\* Sample rate the general specification constructs the synthesizer with.
ModelRate == 150

\* Commands the producer sends in one behaviour of the general specification.
MaxEvents == 3

(* Program constants *)

SAMPLE_RATE == 44100

\* 1 / 0.5: release_rate = 1.0 / (sample_rate * 0.5)
ReleaseTimeInv == 2

\* 1 / 0.01: attack_rate = 1.0 / (sample_rate * 0.01)
AttackTimeInv == 100

\* headroom = 0.8 = 4/5
HeadroomNum == 4

HeadroomDen == 5

\* 2.0 * PI, in quarter turns
TwoPi == 4

----------------------------------------------------------------------------
(* Keys and commands *)

\* Keycode: two keys of the note table and one key outside it.
Keycodes == {"A", "W", "Q"}

\* Option<f32>: None, and Some(x) with x = Unwrap(Some(x))
None == << >>

Some(x) == <<x>>

Unwrap(opt) == opt[1]

\* frequency_from_key.  The note table's frequencies (A: 261.63 Hz,
\* W: 277.18 Hz) are represented by the phase step they give, in quarter
\* turns per sample: two distinct values.  Keys outside the table give None.
frequency_from_key(key) ==
    CASE key = "A" -> Some(1)
      [] key = "W" -> Some(3)
      [] OTHER -> None

\* enum SynthCommand
SynthCommand == [cmd : {"NoteOn", "NoteOff"}, key : Keycodes]

\* 1.0 in units of 1/sample_rate
One(sr) == sr

\* 2.0 * PI * frequency / sample_rate, with the frequency given as above
PhaseIncrement(frequency, sr) == frequency

\* f32::sin on the quarter-turn grid
Sin(phase) ==
    CASE phase % TwoPi = 0 -> 0
      [] phase % TwoPi = 1 -> 1
      [] phase % TwoPi = 2 -> 0
      [] phase % TwoPi = 3 -> -1

----------------------------------------------------------------------------
(* Oscillator *)

\* Oscillator::new
OscillatorNew(frequency, sr) ==
    [ phase           |-> 0,
      phase_increment |-> PhaseIncrement(frequency, sr),
      sample_rate     |-> sr,
      is_releasing    |-> FALSE,
      release_phase   |-> One(sr),
      release_rate    |-> ReleaseTimeInv,
      attack_phase    |-> 0,
      attack_rate     |-> AttackTimeInv ]

\* Oscillator::set_frequency
set_frequency(osc, frequency) ==
    [osc EXCEPT !.phase_increment = PhaseIncrement(frequency, osc.sample_rate)]

\* Oscillator::reset_phase
reset_phase(osc) == [osc EXCEPT !.phase = 0]

\* Faulty variant of restart: a release in progress is not cancelled.
restart_keep_release(osc, frequency) ==
    [reset_phase(set_frequency(osc, frequency)) EXCEPT !.attack_phase = 0]

\* Oscillator::restart
restart(osc, frequency) ==
    [reset_phase(set_frequency(osc, frequency))
        EXCEPT !.is_releasing = FALSE, !.attack_phase = 0]

\* Faulty variant of start_release: the release always starts from 1.0, also when the
\* attack has not completed.
start_release_from_one(osc) ==
    [osc EXCEPT !.is_releasing = TRUE, !.release_phase = One(osc.sample_rate)]

\* Oscillator::start_release
start_release(osc) ==
    IF ~osc.is_releasing /\ osc.attack_phase >= One(osc.sample_rate)
    THEN [osc EXCEPT !.is_releasing = TRUE, !.release_phase = One(osc.sample_rate)]
    ELSE [osc EXCEPT !.is_releasing = TRUE, !.release_phase = osc.attack_phase]

\* Faulty variant of apply_envelope: the attack level is not clamped to 1.0.
apply_envelope_noclamp(osc) ==
    IF osc.attack_phase < One(osc.sample_rate)
    THEN LET a == osc.attack_phase + osc.attack_rate
         IN  [osc |-> [osc EXCEPT !.attack_phase = a], mult |-> a]
    ELSE IF osc.is_releasing
    THEN LET r == osc.release_phase - osc.release_rate
         IN  IF r <= 0
             THEN [osc |-> [osc EXCEPT !.release_phase = 0], mult |-> 0]
             ELSE [osc |-> [osc EXCEPT !.release_phase = r], mult |-> r]
    ELSE [osc |-> osc, mult |-> One(osc.sample_rate)]

\* Oscillator::apply_envelope.  The code returns sample * m; the result here
\* is the oscillator after the call and the multiplier m it used.
apply_envelope(osc) ==
    IF osc.attack_phase < One(osc.sample_rate)
    THEN LET a  == osc.attack_phase + osc.attack_rate
             a2 == IF a > One(osc.sample_rate) THEN One(osc.sample_rate) ELSE a
         IN  [osc |-> [osc EXCEPT !.attack_phase = a2], mult |-> a2]
    ELSE IF osc.is_releasing
    THEN LET r == osc.release_phase - osc.release_rate
         IN  IF r <= 0
             THEN [osc |-> [osc EXCEPT !.release_phase = 0], mult |-> 0]
             ELSE [osc |-> [osc EXCEPT !.release_phase = r], mult |-> r]
    ELSE [osc |-> osc, mult |-> One(osc.sample_rate)]

\* The phase step at the end of the loop body of Synthesizer::next
advance_phase(osc) ==
    LET p == osc.phase + osc.phase_increment
    IN  [osc EXCEPT !.phase = IF p > TwoPi THEN p - TwoPi ELSE p]

----------------------------------------------------------------------------
(* Synthesizer: the bank *)

\* Faulty variant of note_on: a key outside the note table gets an oscillator
\* of frequency 0.
note_on_any_key(bank, key, sr) ==
    IF frequency_from_key(key) = None
    THEN IF key \in DOMAIN bank
         THEN [bank EXCEPT ![key] = restart(bank[key], 0)]
         ELSE (key :> OscillatorNew(0, sr)) @@ bank
    ELSE IF key \in DOMAIN bank
         THEN [bank EXCEPT ![key] = restart(bank[key], Unwrap(frequency_from_key(key)))]
         ELSE (key :> OscillatorNew(Unwrap(frequency_from_key(key)), sr)) @@ bank

\* Synthesizer::note_on (the waveform is always Sine)
note_on(bank, key, sr) ==
    IF frequency_from_key(key) = None
    THEN bank
    ELSE IF key \in DOMAIN bank
         THEN [bank EXCEPT ![key] = restart(bank[key], Unwrap(frequency_from_key(key)))]
         ELSE (key :> OscillatorNew(Unwrap(frequency_from_key(key)), sr)) @@ bank

\* Faulty variant of note_off: a key without an oscillator gets one, already
\* releasing.
note_off_or_insert(bank, key) ==
    IF key \in DOMAIN bank
    THEN [bank EXCEPT ![key] = start_release(bank[key])]
    ELSE (key :> start_release(OscillatorNew(0, 0))) @@ bank

\* Synthesizer::note_off
note_off(bank, key) ==
    IF key \in DOMAIN bank
    THEN [bank EXCEPT ![key] = start_release(bank[key])]
    ELSE bank

\* The match of process_commands on one received command
apply_command(bank, command, sr) ==
    IF command.cmd = "NoteOn"
    THEN note_on(bank, command.key, sr)
    ELSE note_off(bank, command.key)

----------------------------------------------------------------------------
(* Synthesizer::next: one pass over the bank *)

\* osc.apply_envelope(osc_sample) for every oscillator of the bank
Enveloped(bank) == [key \in DOMAIN bank |-> apply_envelope(bank[key])]

\* Faulty variant of finished_oscillators: the test is release_phase <= 0.0 alone.
finished_oscillators_any(bank) ==
    {key \in DOMAIN bank : Enveloped(bank)[key].osc.release_phase <= 0}

\* Faulty variant of finished_oscillators: the test is release_phase < 0.0.
finished_oscillators_strict(bank) ==
    {key \in DOMAIN bank :
        Enveloped(bank)[key].osc.is_releasing
        /\ Enveloped(bank)[key].osc.release_phase < 0}

\* finished_oscillators: is_releasing && release_phase <= 0.0 after apply_envelope
finished_oscillators(bank) ==
    {key \in DOMAIN bank :
        Enveloped(bank)[key].osc.is_releasing
        /\ Enveloped(bank)[key].osc.release_phase <= 0}

\* The oscillators whose sample is accumulated: the else branch of that test
Accumulated(bank) == DOMAIN bank \ finished_oscillators(bank)

\* enveloped_sample of an accumulated oscillator: phase.sin() times the multiplier
enveloped_sample(bank, key) == Sin(bank[key].phase) * Enveloped(bank)[key].mult

RECURSIVE SumOver(_, _)
\* sample_sum += enveloped_sample, over the accumulated oscillators
SumOver(bank, keys) ==
    IF keys = {} THEN 0
    ELSE LET key == CHOOSE k \in keys : TRUE
         IN  enveloped_sample(bank, key) + SumOver(bank, keys \ {key})

sample_sum(bank) == SumOver(bank, Accumulated(bank))

\* Faulty variant of active_oscillators: the finished oscillators are counted.
active_oscillators_all(bank) == Cardinality(DOMAIN bank)

\* active_oscillators += 1, over the accumulated oscillators
active_oscillators(bank) == Cardinality(Accumulated(bank))

\* Faulty variant of TickedBank: every releasing oscillator is removed, whatever its
\* release_phase.
TickedBank_drop_releasing(bank) ==
    [key \in {k \in DOMAIN bank : ~Enveloped(bank)[k].osc.is_releasing} |->
        advance_phase(Enveloped(bank)[key].osc)]

\* Faulty variant of TickedBank: the finished oscillators are not removed.
TickedBank_keep(bank) ==
    [key \in DOMAIN bank |-> advance_phase(Enveloped(bank)[key].osc)]

\* The bank after the pass: every oscillator enveloped and its phase advanced,
\* then the finished ones removed.
TickedBank(bank) ==
    [key \in Accumulated(bank) |-> advance_phase(Enveloped(bank)[key].osc)]

RECURSIVE Gcd(_, _)
Gcd(a, b) == IF b = 0 THEN a ELSE Gcd(b, a % b)

Abs(x) == IF x < 0 THEN -x ELSE x

\* The fraction num/den (den > 0) in lowest terms
Fraction(num, den) ==
    LET g == Gcd(Abs(num), den)
    IN  [num |-> num \div g, den |-> den \div g]

\* f32::clamp(-1.0, 1.0) of a fraction
clamp(x) ==
    IF x.num > x.den THEN [num |-> 1, den |-> 1]
    ELSE IF x.num < -x.den THEN [num |-> -1, den |-> 1]
    ELSE x

\* Faulty variant of normalized_sample: the sum is scaled by the headroom only, neither
\* divided by the number of active oscillators nor clamped.
normalized_sample_raw(bank, sr) ==
    IF active_oscillators(bank) > 0
    THEN Fraction(sample_sum(bank) * HeadroomNum, HeadroomDen * One(sr))
    ELSE [num |-> 0, den |-> 1]

\* The value next() returns: (sample_sum / active_oscillators) * headroom, clamped,
\* or 0.0 when no oscillator is active.  sample_sum is in units of 1/sample_rate.
normalized_sample(bank, sr) ==
    IF active_oscillators(bank) > 0
    THEN clamp(Fraction(sample_sum(bank) * HeadroomNum,
                        active_oscillators(bank) * HeadroomDen * One(sr)))
    ELSE [num |-> 0, den |-> 1]

----------------------------------------------------------------------------
(* History variables: they record what the code did and steer nothing *)

HistInit ==
    [ on      |-> FALSE,   \* a NoteOn was applied and the voice was not removed since
      pulled  |-> FALSE,   \* the voice was ticked since it was created
      mult    |-> 0,       \* the multiplier apply_envelope used on the latest pull
      midoff  |-> FALSE,   \* the latest NoteOff hit the voice with attack_phase < 1.0,
                           \* and no NoteOn was applied since
      rbase   |-> 0,       \* midoff: the level before the latest pull
      rcur    |-> 0,       \* midoff: the multiplier of the latest pull
      retrig  |-> "no",    \* "armed": restarted since the latest pull; "pulled": the
                           \* latest pull was the first one after a restart
      before  |-> 0,       \* retrig: the multiplier of the pull before the restart
      after   |-> 0,       \* retrig: the multiplier of the pull after the restart
      off_age |-> -1 ]     \* pulls since the latest NoteOff (-1: none since the NoteOn)

\* What one applied command does to the history of its key
HistCommand(h, bank, command) ==
    IF command.cmd = "NoteOn"
    THEN IF frequency_from_key(command.key) = None THEN [h EXCEPT !.on = TRUE]
         ELSE IF command.key \notin DOMAIN bank THEN [HistInit EXCEPT !.on = TRUE]
         ELSE [h EXCEPT !.on = TRUE, !.midoff = FALSE, !.rbase = 0, !.rcur = 0,
                        !.off_age = -1,
                        !.retrig = IF h.pulled THEN "armed" ELSE "no",
                        !.before = IF h.pulled THEN h.mult ELSE 0,
                        !.after = 0]
    ELSE IF command.key \notin DOMAIN bank THEN h
         ELSE LET osc == bank[command.key]
                  mid == osc.attack_phase < One(osc.sample_rate)
              IN  [h EXCEPT !.off_age = 0, !.retrig = "no", !.before = 0, !.after = 0,
                            !.midoff = mid,
                            !.rbase = IF mid THEN osc.attack_phase ELSE 0,
                            !.rcur = IF mid THEN osc.attack_phase ELSE 0]

\* What one pass over the bank does to the history of a key
HistTick(h, bank, key) ==
    IF key \notin DOMAIN bank THEN h
    ELSE IF key \in finished_oscillators(bank) THEN HistInit
    ELSE LET m == Enveloped(bank)[key].mult
         IN  [h EXCEPT !.pulled = TRUE, !.mult = m,
                       !.rbase = IF h.midoff THEN h.rcur ELSE 0,
                       !.rcur = IF h.midoff THEN m ELSE 0,
                       !.retrig = IF h.retrig = "armed" THEN "pulled" ELSE "no",
                       !.before = IF h.retrig = "armed" THEN h.before ELSE 0,
                       !.after = IF h.retrig = "armed" THEN m ELSE 0,
                       !.off_age = IF h.off_age >= 0 THEN h.off_age + 1 ELSE -1]

PullInit ==
    [ start   |-> 0,     \* nsent when the pull began
      qstart  |-> 0,     \* commands in the channel when the pull began
      drained |-> 0,     \* commands the drain of this pull has applied
      applied |-> 0,     \* commands applied to the bank so far
      last    |-> 0,     \* stamp of the command applied last
      at_mix  |-> 0,     \* `applied' when the last pass over the bank began
      done    |-> FALSE, \* some pull has returned
      counted |-> {},    \* keys whose sample the last pass accumulated
      removed |-> {},    \* keys the last pass removed
      ages    |-> {} ]   \* for each of them, the pulls since its latest NoteOff,
                         \* the removing pull included

----------------------------------------------------------------------------
(* The two threads *)

\* mpsc::Sender::send: the command joins the end of the channel.  seq is a
\* stamp of the history: the command's position in the order of sending.
send(q, command, n) == Append(q, [cmd |-> command.cmd, key |-> command.key, seq |-> n])

\* Faulty variant of try_recv: the newest command is received first.
try_recv_newest(q) == [command |-> q[Len(q)], rest |-> SubSeq(q, 1, Len(q) - 1)]

\* mpsc::Receiver::try_recv on a non-empty channel
try_recv(q) == [command |-> Head(q), rest |-> Tail(q)]

\* The input thread sends a command (any command: the engine takes its events
\* from whoever holds the Sender).
Send ==
    /\ nsent < MaxEvents
    /\ \E command \in SynthCommand :
          queue' = send(queue, command, nsent + 1)
    /\ nsent' = nsent + 1
    /\ UNCHANGED <<oscillators, sample_rate, pc, out, pull, hist, clock, input>>

\* Synthesizer::next is called and enters process_commands
NextBegin ==
    /\ pc = "idle"
    /\ pc' = "drain"
    /\ pull' = [pull EXCEPT !.start = nsent, !.qstart = Len(queue), !.drained = 0]
    /\ UNCHANGED <<oscillators, sample_rate, queue, out, nsent, hist, clock, input>>

\* process_commands: try_recv returns Ok(command) and the command is applied
ProcessCommand ==
    /\ pc = "drain"
    /\ queue # <<>>
    /\ LET r == try_recv(queue)
       IN  /\ queue' = r.rest
           /\ oscillators' = apply_command(oscillators, r.command, sample_rate)
           /\ hist' = [hist EXCEPT ![r.command.key] =
                          HistCommand(hist[r.command.key], oscillators, r.command)]
    /\ pull' = [pull EXCEPT !.drained = pull.drained + 1,
                            !.applied = pull.applied + 1,
                            !.last = try_recv(queue).command.seq]
    /\ UNCHANGED <<sample_rate, pc, out, nsent, clock, input>>

\* process_commands: try_recv returns Err (the channel is empty), the loop ends,
\* and next() makes its pass over the bank and returns the sample.
Mix ==
    /\ pc = "drain"
    /\ queue = <<>>
    /\ oscillators' = TickedBank(oscillators)
    /\ out' = normalized_sample(oscillators, sample_rate)
    /\ hist' = [key \in Keycodes |-> HistTick(hist[key], oscillators, key)]
    /\ pull' = [pull EXCEPT !.done = TRUE,
                            !.at_mix = pull.applied,
                            !.counted = Accumulated(oscillators),
                            !.removed = finished_oscillators(oscillators),
                            !.ages = {hist[key].off_age + 1 :
                                         key \in finished_oscillators(oscillators)}]
    /\ pc' = "idle"
    /\ UNCHANGED <<sample_rate, queue, nsent, input>>

\* A pull of the general specification
Pull == Mix /\ UNCHANGED clock

\* The input handling thread before its first poll
InputInit ==
    [ at                     |-> "poll",   \* "poll": at get_keys; "send": at the sends
      last_pressed_keys      |-> << >>,
      currently_pressed_keys |-> << >>,
      pressed_keys           |-> << >>,    \* the NoteOn commands still to send
      released_keys          |-> << >> ]   \* the NoteOff commands still to send

\* Synthesizer::new(sample_rate, rx) with an empty channel
InitWith(sr) ==
    /\ oscillators = << >>
    /\ sample_rate = sr
    /\ queue = << >>
    /\ pc = "idle"
    /\ out = [num |-> 0, den |-> 1]
    /\ nsent = 0
    /\ pull = PullInit
    /\ hist = [key \in Keycodes |-> HistInit]
    /\ clock = 0
    /\ input = InputInit

Init == InitWith(ModelRate)

Next == Send \/ NextBegin \/ ProcessCommand \/ Pull

Spec == Init /\ [][Next]_vars

----------------------------------------------------------------------------
(* The scenario at 44100 Hz: NoteOn(A), 441 pulls, NoteOff(A), then pulls *)

\* Pulls the scenario makes after the release has run its 22050 pulls.
ScenarioTail == 3

\* Pulls before the NoteOff: sample_rate * 0.01
AttackPulls == SAMPLE_RATE \div AttackTimeInv

\* Pulls of a full release: sample_rate * 0.5
ReleasePulls == SAMPLE_RATE \div ReleaseTimeInv

\* The producer presses A before the first pull
ScenarioNoteOn ==
    /\ pc = "idle" /\ clock = 0 /\ nsent = 0
    /\ queue' = send(queue, [cmd |-> "NoteOn", key |-> "A"], 1)
    /\ nsent' = 1
    /\ UNCHANGED <<oscillators, sample_rate, pc, out, pull, hist, clock, input>>

\* The producer releases A after AttackPulls pulls
ScenarioNoteOff ==
    /\ pc = "idle" /\ clock = AttackPulls /\ nsent = 1
    /\ queue' = send(queue, [cmd |-> "NoteOff", key |-> "A"], 2)
    /\ nsent' = 2
    /\ UNCHANGED <<oscillators, sample_rate, pc, out, pull, hist, clock, input>>

\* The player pulls once the producer has sent what the scenario sends by then
ScenarioBegin ==
    /\ clock < AttackPulls + ReleasePulls + ScenarioTail
    /\ nsent = (IF clock < AttackPulls THEN 1 ELSE 2)
    /\ NextBegin

\* A pull of the specifications that count their pulls
CountedPull == Mix /\ clock' = clock + 1

InitScenario == InitWith(SAMPLE_RATE)

NextScenario ==
    ScenarioNoteOn \/ ScenarioNoteOff \/ ScenarioBegin \/ ProcessCommand \/ CountedPull

SpecScenario == InitScenario /\ [][NextScenario]_vars

----------------------------------------------------------------------------
(* The first pulls at 44100 Hz, with any commands *)

\* Pulls the specification of the first pulls makes.
MaxStartPulls == 4

StartBegin ==
    /\ clock < MaxStartPulls
    /\ NextBegin

NextStart == Send \/ StartBegin \/ ProcessCommand \/ CountedPull

SpecStart == InitScenario /\ [][NextStart]_vars

----------------------------------------------------------------------------
(* The input handling thread of main, with nobody receiving: the channel keeps
   every command it sent, in the order of sending *)

\* Commands the input thread sends in one behaviour.
MaxSent == 6

\* What get_keys can return: the keys that are down, each once, in any order
KeyLists ==
    {list \in UNION {[1..n -> Keycodes] : n \in 0..Cardinality(Keycodes)} :
        \A i, j \in DOMAIN list : i # j => list[i] # list[j]}

\* Vec::contains
contains(list, key) == \E i \in DOMAIN list : list[i] = key

\* iter().filter(|key| !other.contains(key)).collect()
filter_not_in(list, other) == SelectSeq(list, LAMBDA key : ~contains(other, key))

\* Faulty variant of pressed_keys: every key that is down counts as newly pressed.
pressed_keys_unfiltered(currently_pressed_keys, last_pressed_keys) ==
    currently_pressed_keys

\* let pressed_keys = ...
pressed_keys(currently_pressed_keys, last_pressed_keys) ==
    filter_not_in(currently_pressed_keys, last_pressed_keys)

\* let released_keys = ...
released_keys(currently_pressed_keys, last_pressed_keys) ==
    filter_not_in(last_pressed_keys, currently_pressed_keys)

\* The top of the loop: get_keys and the two filters
GetKeys ==
    /\ input.at = "poll"
    /\ \E keys \in KeyLists :
          /\ nsent + Len(pressed_keys(keys, input.last_pressed_keys))
                + Len(released_keys(keys, input.last_pressed_keys)) <= MaxSent
          /\ input' = [input EXCEPT
                 !.at = "send",
                 !.currently_pressed_keys = keys,
                 !.pressed_keys = pressed_keys(keys, input.last_pressed_keys),
                 !.released_keys = released_keys(keys, input.last_pressed_keys)]
    /\ UNCHANGED <<oscillators, sample_rate, queue, pc, out, nsent, pull, hist, clock>>

\* One iteration of the first for loop: tx.send(SynthCommand::NoteOn(*key))
SendNoteOn ==
    /\ input.at = "send"
    /\ input.pressed_keys # << >>
    /\ queue' = send(queue, [cmd |-> "NoteOn", key |-> Head(input.pressed_keys)],
                     nsent + 1)
    /\ nsent' = nsent + 1
    /\ input' = [input EXCEPT !.pressed_keys = Tail(input.pressed_keys)]
    /\ UNCHANGED <<oscillators, sample_rate, pc, out, pull, hist, clock>>

\* One iteration of the second for loop: tx.send(SynthCommand::NoteOff(*key))
SendNoteOff ==
    /\ input.at = "send"
    /\ input.pressed_keys = << >>
    /\ input.released_keys # << >>
    /\ queue' = send(queue, [cmd |-> "NoteOff", key |-> Head(input.released_keys)],
                     nsent + 1)
    /\ nsent' = nsent + 1
    /\ input' = [input EXCEPT !.released_keys = Tail(input.released_keys)]
    /\ UNCHANGED <<oscillators, sample_rate, pc, out, pull, hist, clock>>

\* last_pressed_keys = currently_pressed_keys.to_vec(), the sleep, and back to
\* the top of the loop
UpdateLast ==
    /\ input.at = "send"
    /\ input.pressed_keys = << >>
    /\ input.released_keys = << >>
    /\ input' = [input EXCEPT !.at = "poll",
                              !.last_pressed_keys = input.currently_pressed_keys]
    /\ UNCHANGED <<oscillators, sample_rate, queue, pc, out, nsent, pull, hist, clock>>

NextInput == GetKeys \/ SendNoteOn \/ SendNoteOff \/ UpdateLast

SpecInput == InitScenario /\ [][NextInput]_vars

----------------------------------------------------------------------------
(* The variant of src/keyboard-clicking.rs: the same channel and bank, an
   oscillator without envelope.  Its definitions carry the prefix kc_. *)

\* headroom = 0.2 = 1/5
kc_HeadroomNum == 1

kc_HeadroomDen == 5

\* Oscillator::new (the waveform is always Sine)
kc_OscillatorNew(frequency, sr) ==
    [ phase           |-> 0,
      phase_increment |-> PhaseIncrement(frequency, sr),
      sample_rate     |-> sr ]

\* Faulty variant of kc_note_on: without the early return, so that insert replaces
\* the oscillator of a key already in the bank.
kc_note_on_replace(bank, key, sr) ==
    IF frequency_from_key(key) # None
    THEN [k \in DOMAIN bank \cup {key} |->
             IF k = key THEN kc_OscillatorNew(Unwrap(frequency_from_key(key)), sr)
             ELSE bank[k]]
    ELSE bank

\* Synthesizer::note_on
kc_note_on(bank, key, sr) ==
    IF key \in DOMAIN bank THEN bank
    ELSE IF frequency_from_key(key) # None
    THEN (key :> kc_OscillatorNew(Unwrap(frequency_from_key(key)), sr)) @@ bank
    ELSE bank

\* Synthesizer::note_off: HashMap::remove
kc_note_off(bank, key) == [k \in DOMAIN bank \ {key} |-> bank[k]]

\* The match of process_commands on one received command
kc_apply_command(bank, command, sr) ==
    IF command.cmd = "NoteOn"
    THEN kc_note_on(bank, command.key, sr)
    ELSE kc_note_off(bank, command.key)

RECURSIVE kc_sample_sum(_, _)
\* sample_sum += osc_sample, over the oscillators of the bank
kc_sample_sum(bank, keys) ==
    IF keys = {} THEN 0
    ELSE LET key == CHOOSE k \in keys : TRUE
         IN  Sin(bank[key].phase) + kc_sample_sum(bank, keys \ {key})

\* The value next() returns: (sample_sum / num_oscillators) * headroom,
\* .min(1.0).max(-1.0), or 0.0 when the bank is empty
kc_sample(bank) ==
    IF Cardinality(DOMAIN bank) > 0
    THEN clamp(Fraction(kc_sample_sum(bank, DOMAIN bank) * kc_HeadroomNum,
                        Cardinality(DOMAIN bank) * kc_HeadroomDen))
    ELSE [num |-> 0, den |-> 1]

\* The bank after the loop of next(): every phase advanced
kc_TickedBank(bank) == [key \in DOMAIN bank |-> advance_phase(bank[key])]

\* History of a key: `on': the command applied last for the key was a NoteOn;
\* `again': it was a NoteOn that found the key in the bank.
kc_HistInit == [on |-> FALSE, again |-> FALSE]

\* process_commands: try_recv returns Ok(command) and the command is applied
kc_ProcessCommand ==
    /\ pc = "drain"
    /\ queue # <<>>
    /\ LET r == try_recv(queue)
       IN  /\ queue' = r.rest
           /\ oscillators' = kc_apply_command(oscillators, r.command, sample_rate)
           /\ hist' = [hist EXCEPT ![r.command.key] =
                          [on    |-> r.command.cmd = "NoteOn",
                           again |-> /\ r.command.cmd = "NoteOn"
                                     /\ r.command.key \in DOMAIN oscillators]]
    /\ pull' = [pull EXCEPT !.drained = pull.drained + 1,
                            !.applied = pull.applied + 1,
                            !.last = try_recv(queue).command.seq]
    /\ UNCHANGED <<sample_rate, pc, out, nsent, clock, input>>

\* process_commands: try_recv returns Err, and next() makes its pass over the
\* bank and returns the sample.
kc_Pull ==
    /\ pc = "drain"
    /\ queue = <<>>
    /\ oscillators' = kc_TickedBank(oscillators)
    /\ out' = kc_sample(oscillators)
    /\ pull' = [pull EXCEPT !.done = TRUE,
                            !.at_mix = pull.applied,
                            !.counted = DOMAIN oscillators]
    /\ pc' = "idle"
    /\ UNCHANGED <<sample_rate, queue, nsent, hist, clock, input>>

\* Synthesizer::new(SAMPLE_RATE, rx) with an empty channel
kc_Init ==
    /\ oscillators = << >>
    /\ sample_rate = SAMPLE_RATE
    /\ queue = << >>
    /\ pc = "idle"
    /\ out = [num |-> 0, den |-> 1]
    /\ nsent = 0
    /\ pull = PullInit
    /\ hist = [key \in Keycodes |-> kc_HistInit]
    /\ clock = 0
    /\ input = InputInit

kc_Next == Send \/ NextBegin \/ kc_ProcessCommand \/ kc_Pull

kc_Spec == kc_Init /\ [][kc_Next]_vars

----------------------------------------------------------------------------
(* Claims *)

Max(a, b) == IF a > b THEN a ELSE b

\* ceil(a / b) for b > 0
CeilDiv(a, b) == (a + b - 1) \div b

\* Keys of the note table
MappedKeys == {key \in Keycodes : frequency_from_key(key) # None}

\* C1 (as claimed): after a NoteOff applied to a voice whose attack is still in
\* progress, the multiplier of every following pull is no higher than the level
\* before that pull (the level at the NoteOff, for the first pull) and lower by
\* at most one release_rate step.
C1_ReleaseFromCurrentLevel ==
    \A key \in DOMAIN oscillators :
        hist[key].midoff =>
            /\ hist[key].rcur <= hist[key].rbase
            /\ hist[key].rbase - hist[key].rcur <= oscillators[key].release_rate

\* C2 (as claimed): a NoteOff applied to a voice that is already releasing leaves
\* the bank, and so the voice's is_releasing, release_phase and attack_phase,
\* unchanged.
C2_NoteOffWhileReleasingIsNoOp ==
    \A key \in DOMAIN oscillators :
        oscillators[key].is_releasing => note_off(oscillators, key) = oscillators

\* C3: in every reachable state of the bank, a second NoteOff for the same key
\* applied right after a first one leaves the bank as the first one left it.
C3_NoteOffTwiceIsNoteOffOnce ==
    \A key \in Keycodes :
        note_off(note_off(oscillators, key), key) = note_off(oscillators, key)

\* C3 witness: a NoteOff has just been applied to a voice that pulls had brought
\* to the end of its attack.
C3_Witness ==
    \E key \in DOMAIN oscillators :
        /\ hist[key].off_age = 0
        /\ hist[key].pulled
        /\ oscillators[key].is_releasing
        /\ oscillators[key].attack_phase = One(sample_rate)

\* C4 (as claimed): on the first pull after a NoteOn restarted a voice of the
\* bank, the multiplier differs from the multiplier of the pull before the
\* restart by at most one attack_rate or release_rate step.
C4_RetriggerNoJump ==
    \A key \in DOMAIN oscillators :
        hist[key].retrig = "pulled" =>
            Abs(hist[key].after - hist[key].before)
                <= Max(oscillators[key].attack_rate, oscillators[key].release_rate)

\* C5: a voice to which a NoteOff was applied, and no event since, is in the bank
\* after fewer than ceil(1/release_rate) pulls only, and the pull that removes
\* it is at the latest the ceil(1/release_rate)-th since that NoteOff; and a
\* pass accumulates no sample of a voice it removes or of a key outside the bank.
C5_RemovedWithinReleaseTime ==
    /\ \A key \in DOMAIN oscillators :
          hist[key].off_age
              < CeilDiv(One(sample_rate), oscillators[key].release_rate)
    /\ \A age \in pull.ages : age <= CeilDiv(One(sample_rate), ReleaseTimeInv)
    /\ pull.counted \cap pull.removed = {}
    /\ pull.counted \subseteq DOMAIN oscillators

\* C5 witness: a pull removed a voice on exactly the ceil(1/release_rate)-th
\* pull after its NoteOff, and the bank no longer holds it.
C5_Witness ==
    /\ CeilDiv(One(sample_rate), ReleaseTimeInv) \in pull.ages
    /\ pull.removed # {}
    /\ pull.removed \cap DOMAIN oscillators = {}

\* C6: at 44100 Hz, after NoteOn(A) the attack level of A is below 1.0 after each
\* of the first 440 pulls and exactly 1.0 after the 441st; after the NoteOff(A)
\* applied next, A is in the bank after each of the next 22049 pulls and absent
\* after the 22050th, and that pull and every later one emit 0.
C6_Scenario441And22050 ==
    /\ (1 <= clock /\ clock < 441) =>
          /\ "A" \in DOMAIN oscillators
          /\ oscillators["A"].attack_phase < One(sample_rate)
    /\ (clock = 441) =>
          /\ "A" \in DOMAIN oscillators
          /\ oscillators["A"].attack_phase = One(sample_rate)
    /\ (441 < clock /\ clock < 441 + 22050) => "A" \in DOMAIN oscillators
    /\ (clock >= 441 + 22050) =>
          /\ "A" \notin DOMAIN oscillators
          /\ out.num = 0

\* C6 witness: the 22050th pull after the NoteOff is the one that removed A.
C6_Witness ==
    /\ clock = 441 + 22050
    /\ pull.removed = {"A"}
    /\ oscillators = << >>

\* C7 (as claimed): the drain of one pull applies no more commands than the
\* channel held when the pull began.
C7_DrainOnlyQueuedAtStart == pull.drained <= pull.qstart

\* C8: the commands applied so far are the first ones sent, in the order of
\* sending and each once (the n-th applied command is the n-th sent one, and
\* the channel holds exactly the later ones, in order); and when a pull makes
\* its pass over the bank, every command sent before the pull began is applied.
C8_EveryEventAppliedOnceInOrder ==
    /\ pull.last = pull.applied
    /\ pull.applied + Len(queue) = nsent
    /\ \A i \in 1..Len(queue) : queue[i].seq = pull.applied + i
    /\ (pc = "idle" /\ pull.done) => pull.at_mix >= pull.start

\* C8 witness: a pull that began with two commands in the channel has returned
\* and both were applied.
C8_Witness ==
    /\ pc = "idle" /\ pull.done
    /\ pull.qstart >= 2
    /\ pull.at_mix = pull.start

\* C9: the bank never holds more voices than there are keys that received a
\* NoteOn and were not removed since, and only keys of the note table.
C9_BankBoundedByStartedKeys ==
    /\ Cardinality(DOMAIN oscillators)
          <= Cardinality({key \in Keycodes : hist[key].on})
    /\ DOMAIN oscillators \subseteq {key \in Keycodes : hist[key].on}
    /\ Cardinality(DOMAIN oscillators) <= Cardinality(MappedKeys)

\* C9 witness: a pull removed a finished voice while another voice stayed, after
\* NoteOns for both.
C9_Witness ==
    /\ pull.removed # {}
    /\ DOMAIN oscillators # {}
    /\ pull.removed \cap DOMAIN oscillators = {}

\* C10: the sample a pull emits lies in [-1.0, 1.0].
C10_OutputWithinUnit == -out.den <= out.num /\ out.num <= out.den

\* C10 witness: a pull mixed two voices into a non-zero sample.
C10_Witness ==
    /\ pull.done
    /\ Cardinality(pull.counted) = 2
    /\ out.num # 0

\* The running step is an iteration of process_commands that applies `command'
Applies(command) ==
    /\ pc = "drain"
    /\ queue # << >>
    /\ Head(queue).cmd = command.cmd
    /\ Head(queue).key = command.key
    /\ pull'.applied = pull.applied + 1

\* C11: a NoteOn for a key outside the note table leaves the bank (its keys and
\* every voice) as it was, creates no voice for the key, and the drain goes on:
\* the command has left the channel and the audio thread is still in
\* process_commands.
C11_UnmappedNoteOnDropped ==
    /\ [](DOMAIN oscillators \subseteq MappedKeys)
    /\ [][\A key \in Keycodes \ MappedKeys :
             Applies([cmd |-> "NoteOn", key |-> key]) =>
                 /\ oscillators' = oscillators
                 /\ queue' = Tail(queue)
                 /\ pc' = "drain"]_vars

\* C11 witness: the first command put A in the bank and A was ticked; the second
\* command, a NoteOn for the key outside the table, has been applied in the
\* running drain, and a third command is still waiting.
C11_Witness ==
    /\ pc = "drain"
    /\ hist["Q"].on
    /\ "A" \in DOMAIN oscillators
    /\ hist["A"].pulled
    /\ pull.at_mix = 1
    /\ pull.applied = 2
    /\ queue # << >>

\* C12: a NoteOff for a key that has no voice in the bank (never started,
\* outside the note table, or removed already) leaves the whole bank as it was
\* and the drain goes on.
C12_NoteOffWithoutVoiceIsNoOp ==
    [][\A key \in Keycodes \ DOMAIN oscillators :
          Applies([cmd |-> "NoteOff", key |-> key]) =>
              /\ oscillators' = oscillators
              /\ queue' = Tail(queue)
              /\ pc' = "drain"]_vars

\* C12 witness: the first command put A in the bank and A was ticked; the second
\* command has been applied in the running drain and was neither a NoteOn (A was
\* not restarted, W is not in the bank, no NoteOn for Q was applied) nor a
\* NoteOff for A: it was a NoteOff for W or Q, which have no voice.
C12_Witness ==
    /\ pc = "drain"
    /\ pull.at_mix = 1
    /\ pull.applied = 2
    /\ DOMAIN oscillators = {"A"}
    /\ hist["A"].pulled
    /\ hist["A"].retrig = "no"
    /\ hist["A"].off_age = -1
    /\ ~hist["Q"].on

\* C13 (as claimed): the attack_phase and the release_phase of every voice lie
\* in [0, 1], the multiplier apply_envelope uses lies in [0, 1], and a voice the
\* pass finds finished (is_releasing with release_phase at 0) was given the
\* multiplier 0 by apply_envelope.
C13_LevelWithinUnitAndDoneIsZero ==
    \A key \in DOMAIN oscillators :
        LET osc == oscillators[key]
            env == Enveloped(oscillators)[key]
        IN  /\ 0 <= osc.attack_phase /\ osc.attack_phase <= One(sample_rate)
            /\ 0 <= osc.release_phase /\ osc.release_phase <= One(sample_rate)
            /\ 0 <= env.mult /\ env.mult <= One(sample_rate)
            /\ key \in finished_oscillators(oscillators) => env.mult = 0

\* The phase a voice of the bank had when the last pass read it: the phase
\* step undone (the sine has period 2*PI)
PhaseRead(osc) == osc.phase - osc.phase_increment + TwoPi

RECURSIVE LevelTimesRaw(_)
\* Sum, over the given voices of the bank, of the envelope level of the last
\* pass times the raw sine sample the pass read
LevelTimesRaw(keys) ==
    IF keys = {} THEN 0
    ELSE LET key == CHOOSE k \in keys : TRUE
         IN  hist[key].mult * Sin(PhaseRead(oscillators[key]))
                 + LevelTimesRaw(keys \ {key})

\* C14: when a pull has returned, the value it emitted is 0.0 if the bank it
\* left is empty, and otherwise the sum of level times raw sample over the
\* voices it left, divided by their number, times 0.8, clamped to [-1, 1].  The
\* voices that finished in the pass are not in the bank it left (pull.removed)
\* and are in neither the sum nor the number.
C14_EmittedValue ==
    (pc = "idle" /\ pull.done) =>
        /\ pull.removed \cap DOMAIN oscillators = {}
        /\ out = IF DOMAIN oscillators = {}
                 THEN [num |-> 0, den |-> 1]
                 ELSE clamp(Fraction(LevelTimesRaw(DOMAIN oscillators) * HeadroomNum,
                                     Cardinality(DOMAIN oscillators) * HeadroomDen
                                         * One(sample_rate)))

\* C14 witness: a pull has returned that mixed two voices, both at a phase where
\* the sine is not 0, into a value that is not 0.
C14_Witness ==
    /\ pc = "idle"
    /\ pull.done
    /\ DOMAIN oscillators = {"A", "W"}
    /\ \A key \in DOMAIN oscillators : Sin(PhaseRead(oscillators[key])) # 0
    /\ out.num # 0

\* The oscillator is in the finished state: is_releasing with release_phase at 0
Finished(osc) == osc.is_releasing /\ osc.release_phase <= 0

\* C15: on the step in which a pull makes its pass and returns, the bank it
\* leaves holds no voice in the finished state, and every voice it took out of
\* the bank was in the finished state after its apply_envelope of this pass.
C15_FinishedRemovedInSamePull ==
    [][(pc = "drain" /\ pc' = "idle") =>
          /\ \A key \in DOMAIN oscillators' : ~Finished(oscillators'[key])
          /\ \A key \in DOMAIN oscillators \ DOMAIN oscillators' :
                Finished(apply_envelope(oscillators[key]).osc)]_vars

\* C15 witness: a pull has returned that removed A at the end of a whole release
\* from 1.0 and kept W, which is in the bank.
C15_Witness ==
    /\ pc = "idle"
    /\ pull.removed = {"A"}
    /\ pull.ages = {CeilDiv(One(sample_rate), ReleaseTimeInv)}
    /\ DOMAIN oscillators = {"W"}

\* C16: a NoteOn applied to a key whose voice is in the bank, released or not,
\* keeps the keys of the bank and every other voice, and leaves the voice not
\* releasing, at phase 0 and at attack level 0, so that its next multiplier is
\* one attack step; and a pull does not remove a voice restarted since its
\* latest NoteOff: a voice a pull removes had a NoteOff applied after its latest
\* NoteOn and is in the finished state.
C16_RetriggerRestartsVoice ==
    /\ [][\A key \in DOMAIN oscillators :
             Applies([cmd |-> "NoteOn", key |-> key]) =>
                 /\ DOMAIN oscillators' = DOMAIN oscillators
                 /\ \A other \in DOMAIN oscillators \ {key} :
                       oscillators'[other] = oscillators[other]
                 /\ ~oscillators'[key].is_releasing
                 /\ oscillators'[key].phase = 0
                 /\ oscillators'[key].attack_phase = 0
                 /\ apply_envelope(oscillators'[key]).mult =
                       (IF AttackTimeInv > One(sample_rate)
                        THEN One(sample_rate) ELSE AttackTimeInv)]_vars
    /\ [][(pc = "drain" /\ pc' = "idle") =>
             \A key \in DOMAIN oscillators \ DOMAIN oscillators' :
                 /\ hist[key].retrig = "no"
                 /\ hist[key].off_age >= 0
                 /\ Finished(apply_envelope(oscillators[key]).osc)]_vars

\* C16 witness: A was restarted while its release was in progress (it is not
\* releasing and its release_phase is below 1.0, the level that release had
\* reached) and the pull after the restart has kept it, in its attack.
C16_Witness ==
    /\ pc = "idle"
    /\ "A" \in DOMAIN oscillators
    /\ ~oscillators["A"].is_releasing
    /\ oscillators["A"].release_phase < One(sample_rate)
    /\ hist["A"].retrig = "pulled"
    /\ hist["A"].mult = hist["A"].after
    /\ oscillators["A"].attack_phase > 0

\* C17: a pull removes no voice whose latest NoteOn has no NoteOff applied after
\* it, and when the attack of such a voice has completed the pull gives it the
\* multiplier 1.0 and changes nothing of it but its phase.
C17_HeldVoiceStaysAtOne ==
    [][(pc = "drain" /\ pc' = "idle") =>
          \A key \in DOMAIN oscillators :
              hist[key].off_age = -1 =>
                  /\ key \in DOMAIN oscillators'
                  /\ oscillators[key].attack_phase >= One(sample_rate) =>
                        /\ hist'[key].mult = One(sample_rate)
                        /\ oscillators'[key] = advance_phase(oscillators[key])]_vars

\* C17 witness: A is held with its attack complete and has been ticked at least
\* five times since its NoteOn (its phase has gone round once), the last time
\* with the multiplier 1.0.
C17_Witness ==
    /\ pc = "idle"
    /\ "A" \in DOMAIN oscillators
    /\ hist["A"].off_age = -1
    /\ ~oscillators["A"].is_releasing
    /\ oscillators["A"].attack_phase = One(sample_rate)
    /\ oscillators["A"].phase = 1
    /\ hist["A"].mult = One(sample_rate)

\* The commands sent for a key, in the order of sending (nobody has received)
SentFor(key) == SelectSeq(queue, LAMBDA command : command.key = key)

\* C18: the commands the input thread has sent for a key are NoteOn, NoteOff,
\* NoteOn, NoteOff, ...: the first is a NoteOn and no two in a row are of the
\* same kind.
C18_InputAlternates ==
    \A key \in Keycodes :
        \A i \in DOMAIN SentFor(key) :
            SentFor(key)[i].cmd = (IF i % 2 = 1 THEN "NoteOn" ELSE "NoteOff")

\* C18 witness: A was pressed and released twice and W once in between.
C18_Witness ==
    /\ Len(SentFor("A")) = 4
    /\ Len(SentFor("W")) = 2
    /\ queue[2].key = "W"
    /\ queue[5].key = "W"

\* C19: in the variant without envelope, the keys of the bank are at all times
\* (so after every drain) the keys of the note table whose command applied last
\* was a NoteOn; a NoteOff takes its key out of the bank at once and leaves the
\* other voices; a NoteOn for a key in the bank leaves the whole bank, phases
\* included, as it was; and a pull leaves the keys of the bank as they were.
C19_BankIsKeysLastNoteOn ==
    /\ [](DOMAIN oscillators = {key \in MappedKeys : hist[key].on})
    /\ [][\A key \in Keycodes :
             /\ Applies([cmd |-> "NoteOff", key |-> key]) =>
                   /\ DOMAIN oscillators' = DOMAIN oscillators \ {key}
                   /\ \A other \in DOMAIN oscillators' :
                         oscillators'[other] = oscillators[other]
             /\ (key \in DOMAIN oscillators
                    /\ Applies([cmd |-> "NoteOn", key |-> key])) =>
                   oscillators' = oscillators]_vars
    /\ [][(pc = "drain" /\ pc' = "idle") =>
             DOMAIN oscillators' = DOMAIN oscillators]_vars

\* C19 witness: two commands have been applied, a NoteOn that put A in the bank
\* and, in the running drain, two pulls later, a NoteOn that found A in the
\* bank; A is at the phase the two pulls left it at.
C19_Witness ==
    /\ pc = "drain"
    /\ pull.applied = 2
    /\ pull.drained = 1
    /\ hist["A"].again
    /\ DOMAIN oscillators = {"A"}
    /\ oscillators["A"].phase = 2

====
